---------------------------- MODULE Spec2Model ----------------------------
(***************************************************************************)
(* A model of finetune-gpt3-for-code (index.js): the yargs command table   *)
(* (upload / list / generate / parse), the CSV -> JSONL dataset            *)
(* conversion, the upload + fine-tune submission, and the source miner     *)
(* that walks a TypeScript syntax tree and prints prompt/completion pairs. *)
(*                                                                         *)
(* Text is modelled character by character (a sequence of one-character    *)
(* strings), so that quoting, escaping and joining are computed, not       *)
(* assumed.                                                                *)
(***************************************************************************)
EXTENDS Naturals, Sequences, FiniteSets

VARIABLES
    pc,             \* where the process is: "shell" (not running), a pending await, ...
    argv,           \* hideBin(process.argv): the positional arguments
    envDebug,       \* process.env.DEBUG: "unset", "true" or "false"
    runs,           \* number of invocations started so far
    exitCode,       \* exit status of the last invocation (0 ok, 1 uncaught error)
    csvFile,        \* data/dataset.csv    [exists, data]
    jsonlFile,      \* data/dataset.jsonl  [exists, data]
    inputPath,      \* what argv.sourceCodeFilePath names: a file or a directory
    visited,        \* the parseNode calls of this invocation, in call order
    emitted,        \* the (prompt, completion) pairs logged by parseNode, in order
    stdout,         \* console.log calls of this invocation, in order
    remoteFiles,    \* files held by the remote service (index = file id)
    fineTunes,      \* fine-tune jobs held by the remote service (index = job id)
    calls,          \* remote requests issued, in order, over all invocations
    trainingFileId, \* local of uploadDatasetAndFineTuneModel
    fineTuneId      \* local of uploadDatasetAndFineTuneModel

vars == << pc, argv, envDebug, runs, exitCode, csvFile, jsonlFile, inputPath,
           visited, emitted, stdout, remoteFiles, fineTunes, calls,
           trainingFileId, fineTuneId >>

---------------------------------------------------------------------------
(* Bounds of the model *)

\* most nodes in a mined source file
MaxNodes == 4
\* most parameters of an arrow function
MaxParams == 2
\* most CLI invocations in one behaviour
MaxRuns == 2
\* most columns of a CSV row and most data rows of a CSV file
MaxCols == 3
MaxRows == 2
\* most characters after the header row in a CSV text built from CsvAlphabet
MaxBody == 4

---------------------------------------------------------------------------
(* Text and JavaScript values *)

RECURSIVE Cat(_)
\* concatenation of a sequence of texts
Cat(ss) == IF ss = << >> THEN << >> ELSE Head(ss) \o Cat(Tail(ss))

\* a JavaScript value that is either a string or undefined
Undefined == [defined |-> FALSE, text |-> << >>]
Str(s) == [defined |-> TRUE, text |-> s]

RECURSIVE ArrayJoin(_, _)
\* Array.prototype.join: undefined elements are joined as the empty string
ArrayJoin(vals, sep) ==
    IF vals = << >> THEN << >>
    ELSE IF Len(vals) = 1 THEN Head(vals).text
    ELSE Head(vals).text \o sep \o ArrayJoin(Tail(vals), sep)

QUOTE == "\""
COMMA == ","
NL == "\n"
BACKSLASH == "\\"

---------------------------------------------------------------------------
(* Syntax trees, as the TypeScript parser hands them to the miner.         *)
(* A tree has nodes 1..n, node 1 is the SourceFile; parent[i] < i and the  *)
(* children of a node are kept in source order (ascending id).             *)

IdentA == [isIdentifier |-> TRUE, text |-> <<"a">>]
IdentB == [isIdentifier |-> TRUE, text |-> <<"b">>]
\* a destructured parameter {c}: its name is a binding pattern, not an identifier
PatternC == [isIdentifier |-> FALSE, text |-> <<"{", "c", "}">>]
ParamDecls == {IdentA, IdentB, PatternC}

\* parameter lists without a repeated declaration, up to MaxParams long
ParamLists ==
    UNION { { ps \in [1..k -> ParamDecls] : \A i, j \in 1..k : i # j => ps[i] # ps[j] }
            : k \in 0..MaxParams }

ArrowLabels == { [kind |-> "ArrowFunction", parameters |-> ps] : ps \in ParamLists }
StringLiteralLabel == [kind |-> "StringLiteral", parameters |-> << >>]
BlockLabel == [kind |-> "Block", parameters |-> << >>]
SourceFileLabel == [kind |-> "SourceFile", parameters |-> << >>]

\* the node kinds a node with c children can have: an arrow function has
\* exactly its body as child, a literal has none, a block has any number
LabelsFor(c) ==
    (IF c = 1 THEN ArrowLabels ELSE {})
      \cup (IF c = 0 THEN {StringLiteralLabel} ELSE {})
      \cup {BlockLabel}

RECURSIVE ParentSeqs(_)
\* parent[1] = 0 (the root), parent[k] \in 1..k-1
ParentSeqs(n) ==
    IF n = 1 THEN { <<0>> }
    ELSE { Append(p, q) : p \in ParentSeqs(n - 1), q \in 1..(n - 1) }

ChildCount(p, i) == Cardinality({ j \in 1..Len(p) : p[j] = i })

RECURSIVE LabelSeqs(_, _)
LabelSeqs(p, k) ==
    IF k = 1 THEN { <<SourceFileLabel>> }
    ELSE { Append(ls, l) : ls \in LabelSeqs(p, k - 1), l \in LabelsFor(ChildCount(p, k)) }

TreesOfSize(n) ==
    UNION { { [parent |-> p, label |-> ls] : ls \in LabelSeqs(p, n) } : p \in ParentSeqs(n) }

\* the syntax trees of at most n nodes
TreesUpTo(n) == UNION { TreesOfSize(k) : k \in 1..n }

Nodes(t) == 1..Len(t.parent)

RECURSIVE ChildrenFrom(_, _, _)
ChildrenFrom(t, i, j) ==
    IF j > Len(t.parent) THEN << >>
    ELSE (IF t.parent[j] = i THEN <<j>> ELSE << >>) \o ChildrenFrom(t, i, j + 1)

\* the children typescript.forEachChild hands to the callback, in order
Children(t, i) == ChildrenFrom(t, i, 1)

isArrowFunction(t, i) == t.label[i].kind = "ArrowFunction"

\* node.name.escapedText of a parameter: undefined for a binding pattern
escapedText(param) == IF param.isIdentifier THEN Str(param.text) ELSE Undefined

RECURSIVE printNode(_, _)
\* printer.printNode(EmitHint.Unspecified, node, sourceFile)
printNode(t, i) ==
    LET kids == Children(t, i)
        kidText == [k \in 1..Len(kids) |-> printNode(t, kids[k])]
        k == t.label[i].kind
    IN  IF k = "ArrowFunction"
          THEN <<"(">> \o ArrayJoin([j \in 1..Len(t.label[i].parameters) |->
                                        Str(t.label[i].parameters[j].text)], <<",", " ">>)
               \o <<")", " ", "=", ">", " ">> \o Cat(kidText)
        ELSE IF k = "StringLiteral"
          THEN <<QUOTE, "s", QUOTE>>
        ELSE IF k = "Block"
          THEN IF kids = << >> THEN <<"{", " ", "}">>
               ELSE <<"{", NL>> \o Cat([j \in 1..Len(kids) |-> kidText[j] \o <<";", NL>>])
                    \o <<"}">>
        ELSE Cat([j \in 1..Len(kids) |-> kidText[j] \o <<";", NL>>])


---------------------------------------------------------------------------
(* The source miner: parseSourcecode / parseNode *)

S_function == <<"f", "u", "n", "c", "t", "i", "o", "n">>
S_function_with_no_parameters ==
    <<"f", "u", "n", "c", "t", "i", "o", "n", " ", "w", "i", "t", "h", " ",
      "n", "o", " ", "p", "a", "r", "a", "m", "e", "t", "e", "r", "s">>
S_function_with_ == <<"f", "u", "n", "c", "t", "i", "o", "n", " ", "w", "i", "t", "h", " ">>
S__parameter == <<" ", "p", "a", "r", "a", "m", "e", "t", "e", "r">>
S__parameters == <<" ", "p", "a", "r", "a", "m", "e", "t", "e", "r", "s">>

\* Prompts with the second push of the zero-parameter branch left out
PromptsOnePush(t, i) ==
    IF isArrowFunction(t, i)
      THEN LET parameters == t.label[i].parameters
               params == ArrayJoin([j \in 1..Len(parameters) |-> escapedText(parameters[j])],
                                   <<",", " ">>)
           IN  IF Len(parameters) = 0
                 THEN << S_function >>
               ELSE IF Len(parameters) = 1
                 THEN << S_function_with_ \o params \o S__parameter >>
               ELSE << S_function_with_ \o params \o S__parameters >>
      ELSE << >>

\* Prompts with the one-parameter branch left out: always the plural form
PromptsAlwaysPlural(t, i) ==
    IF isArrowFunction(t, i)
      THEN LET parameters == t.label[i].parameters
               params == ArrayJoin([j \in 1..Len(parameters) |-> escapedText(parameters[j])],
                                   <<",", " ">>)
           IN  IF Len(parameters) = 0
                 THEN << S_function, S_function_with_no_parameters >>
               ELSE << S_function_with_ \o params \o S__parameters >>
      ELSE << >>

\* the prompts of one node: lines 75-90 of parseNode
Prompts(t, i) ==
    IF isArrowFunction(t, i)
      THEN LET parameters == t.label[i].parameters
               params == ArrayJoin([j \in 1..Len(parameters) |-> escapedText(parameters[j])],
                                   <<",", " ">>)
           IN  IF Len(parameters) = 0
                 THEN << S_function, S_function_with_no_parameters >>
               ELSE IF Len(parameters) = 1
                 THEN << S_function_with_ \o params \o S__parameter >>
               ELSE << S_function_with_ \o params \o S__parameters >>
      ELSE << >>

\* the template literal `"${prompt}","${completion}"\n` handed to console.log
PairLine(prompt, completion) ==
    <<QUOTE>> \o prompt \o <<QUOTE, COMMA, QUOTE>> \o completion \o <<QUOTE, NL>>

NoWalk == [visited |-> << >>, emitted |-> << >>]

RECURSIVE parseNode(_, _, _)
RECURSIVE forEachChild(_, _, _)

\* forEachChild as it behaves when the callback returns a truthy value: the
\* walk stops after the first child
forEachChildFirstOnly(t, f, kids) ==
    IF kids = << >> THEN NoWalk ELSE parseNode(t, f, Head(kids))

\* typescript.forEachChild(node, parseNode): calls the callback on each child in
\* order and stops at the first truthy result; parseNode returns undefined, so
\* every child is visited
forEachChild(t, f, kids) ==
    IF kids = << >> THEN NoWalk
    ELSE LET first == parseNode(t, f, Head(kids))
             rest == forEachChild(t, f, Tail(kids))
         IN  [visited |-> first.visited \o rest.visited,
              emitted |-> first.emitted \o rest.emitted]

\* parseNode(node) of file f: print the node, collect its prompts, log one
\* line per prompt, then walk the children
parseNode(t, f, i) ==
    LET completion == printNode(t, i)
        prompts == Prompts(t, i)
        logged == [k \in 1..Len(prompts) |->
                     [file |-> f, node |-> i, prompt |-> prompts[k],
                      completion |-> completion]]
        below == forEachChild(t, f, Children(t, i))
    IN  [visited |-> << [file |-> f, node |-> i] >> \o below.visited,
         emitted |-> logged \o below.emitted]

\* parseSourcecode(path): the walk starts at the source file node
parseSourcecode(t, f) == parseNode(t, f, 1)

---------------------------------------------------------------------------
(* csv-parse/sync, with the options convertCsvToJsonl passes:              *)
(* columns: true, skip_empty_lines: true, quote: '"',                      *)
(* relax_column_count: true (delimiter ",", escape '"', relax_quotes off)  *)

CsvError == [ok |-> FALSE, records |-> << >>]

RECURSIVE CsvScan(_, _, _, _, _, _, _)
\* the parser's character loop: quoting = inside a quoted field, wasQuoting =
\* the current field was quoted, field / record / records = what is read so far
CsvScan(text, pos, quoting, wasQuoting, field, record, records) ==
    IF pos > Len(text)
      THEN IF quoting THEN CsvError                     \* quote not closed
           ELSE IF wasQuoting \/ record # << >> \/ field # << >>
             THEN [ok |-> TRUE, records |-> Append(records, Append(record, field))]
           ELSE [ok |-> TRUE, records |-> records]
    ELSE LET chr == text[pos]
             hasNext == pos < Len(text)
             nextIs(c) == hasNext /\ text[pos + 1] = c
             \* where the characters that only extend the field stop
             stops == { j \in pos..Len(text) :
                          \/ text[j] = QUOTE
                          \/ (~quoting /\ text[j] \in {COMMA, NL}) }
             plainEnd == IF stops = {} THEN Len(text)
                         ELSE (CHOOSE j \in stops : \A k \in stops : j <= k) - 1
         IN  IF quoting /\ chr = QUOTE /\ nextIs(QUOTE)
               THEN \* an escaped quote inside a quoted field
                    CsvScan(text, pos + 2, TRUE, wasQuoting, Append(field, QUOTE),
                            record, records)
             ELSE IF chr = QUOTE /\ quoting
               THEN IF ~hasNext \/ nextIs(COMMA) \/ nextIs(NL)
                      THEN CsvScan(text, pos + 1, FALSE, TRUE, field, record, records)
                    ELSE CsvError                       \* invalid closing quote
             ELSE IF chr = QUOTE
               THEN IF field # << >>
                      THEN CsvError                     \* invalid opening quote
                    ELSE CsvScan(text, pos + 1, TRUE, wasQuoting, field, record, records)
             ELSE IF ~quoting /\ chr = NL
               THEN IF ~wasQuoting /\ record = << >> /\ field = << >>
                      THEN \* skip_empty_lines
                           CsvScan(text, pos + 1, FALSE, FALSE, << >>, << >>, records)
                    ELSE CsvScan(text, pos + 1, FALSE, FALSE, << >>, << >>,
                                 Append(records, Append(record, field)))
             ELSE IF ~quoting /\ chr = COMMA
               THEN CsvScan(text, pos + 1, FALSE, FALSE, << >>, Append(record, field),
                            records)
             ELSE \* ordinary characters are appended to the field
                  CsvScan(text, plainEnd + 1, quoting, wasQuoting,
                          field \o SubSeq(text, pos, plainEnd), record, records)

\* the rows of fields csv-parse reads from the text, or an error
CsvRows(text) == CsvScan(text, 1, FALSE, FALSE, << >>, << >>, << >>)

(* JavaScript objects: a sequence of [key, value] in Object.keys order, which *)
(* is integer-like keys in ascending numeric order, then the other keys in    *)
(* insertion order.                                                           *)

Digits == <<"0", "1", "2", "3", "4", "5", "6", "7", "8", "9">>
IsDigit(c) == \E d \in 1..10 : Digits[d] = c
DigitValue(c) == (CHOOSE d \in 1..10 : Digits[d] = c) - 1

RECURSIVE NumericValue(_)
NumericValue(key) ==
    IF key = << >> THEN 0
    ELSE NumericValue(SubSeq(key, 1, Len(key) - 1)) * 10 + DigitValue(key[Len(key)])

\* a canonical array index: digits only, no leading zero
IsIndexKey(key) ==
    /\ key # << >>
    /\ \A k \in 1..Len(key) : IsDigit(key[k])
    /\ (Len(key) = 1 \/ key[1] # "0")

HasKey(obj, key) == \E k \in 1..Len(obj) : obj[k].key = key

\* obj[key], undefined when the object has no such property
ObjGet(obj, key) ==
    IF HasKey(obj, key)
      THEN (obj[CHOOSE k \in 1..Len(obj) : obj[k].key = key]).value
    ELSE Undefined

\* whether property `a` comes before a new property `key` in Object.keys order
KeyBefore(a, key) ==
    IF IsIndexKey(key)
      THEN IsIndexKey(a) /\ NumericValue(a) < NumericValue(key)
    ELSE TRUE

\* obj[key] = value
ObjSet(obj, key, value) ==
    IF HasKey(obj, key)
      THEN [k \in 1..Len(obj) |->
              IF obj[k].key = key THEN [key |-> key, value |-> value] ELSE obj[k]]
    ELSE LET before == SelectSeq(obj, LAMBDA e : KeyBefore(e.key, key))
             after == SelectSeq(obj, LAMBDA e : ~KeyBefore(e.key, key))
         IN  before \o << [key |-> key, value |-> value] >> \o after

\* Object.keys(obj)
ObjectKeys(obj) == [k \in 1..Len(obj) |-> obj[k].key]

RECURSIVE RecordObject(_, _, _)
\* csv-parse's record object for one row under `columns`: obj[columns[i].name] =
\* record[i] for i in order; fields beyond the header are dropped
RecordObject(columns, row, i) ==
    IF i = 0 THEN << >>
    ELSE LET obj == RecordObject(columns, row, i - 1)
         IN  IF i > Len(columns) THEN obj
             ELSE ObjSet(obj, columns[i], Str(row[i]))

S_prompt == <<"p", "r", "o", "m", "p", "t">>
S_completion == <<"c", "o", "m", "p", "l", "e", "t", "i", "o", "n">>

\* the onRecord callback: lines 31-34
onRecord(record) ==
    LET keys == ObjectKeys(record)
        prompt == IF keys = << >> THEN Undefined ELSE ObjGet(record, keys[1])
    IN  [prompt |-> prompt, completion |-> ObjGet(record, S_completion)]

\* csvParseSync(csvData, {...}): the first row names the columns, every other
\* row goes through onRecord
csvParseSync(csvData) ==
    LET parsed == CsvRows(csvData)
    IN  IF ~parsed.ok THEN CsvError
        ELSE IF parsed.records = << >> THEN [ok |-> TRUE, records |-> << >>]
        ELSE LET columns == Head(parsed.records)
                 rows == Tail(parsed.records)
             IN  [ok |-> TRUE,
                  records |-> [k \in 1..Len(rows) |->
                                 onRecord(RecordObject(columns, rows[k], Len(rows[k])))]]

RECURSIVE JsonEscape(_)
\* the body of a JSON string: quote, backslash and newline are escaped
JsonEscape(s) ==
    IF s = << >> THEN << >>
    ELSE (IF Head(s) = QUOTE THEN <<BACKSLASH, QUOTE>>
          ELSE IF Head(s) = BACKSLASH THEN <<BACKSLASH, BACKSLASH>>
          ELSE IF Head(s) = NL THEN <<BACKSLASH, "n">>
          ELSE <<Head(s)>>) \o JsonEscape(Tail(s))

JsonString(s) == <<QUOTE>> \o JsonEscape(s) \o <<QUOTE>>

\* JSON.stringify({prompt, completion}): an undefined property is left out
JsonStringify(rec) ==
    LET p == IF rec.prompt.defined
               THEN << JsonString(S_prompt) \o <<":">> \o JsonString(rec.prompt.text) >>
             ELSE << >>
        c == IF rec.completion.defined
               THEN << JsonString(S_completion) \o <<":">> \o JsonString(rec.completion.text) >>
             ELSE << >>
        props == p \o c
    IN  <<"{">> \o ArrayJoin([k \in 1..Len(props) |-> Str(props[k])], <<COMMA>>) \o <<"}">>

NoFile == [exists |-> FALSE, data |-> << >>]
FileOf(data) == [exists |-> TRUE, data |-> data]

\* convertCsvToJsonl opening its output before the CSV is read and parsed: a
\* failure leaves the JSONL file truncated
convertCsvToJsonlTruncating(csv, jsonl) ==
    IF ~csv.exists THEN [threw |-> TRUE, jsonl |-> FileOf(<< >>)]
    ELSE LET parsed == csvParseSync(csv.data)
         IN  IF ~parsed.ok THEN [threw |-> TRUE, jsonl |-> FileOf(<< >>)]
             ELSE [threw |-> FALSE,
                   jsonl |-> FileOf(ArrayJoin(
                       [k \in 1..Len(parsed.records) |->
                          Str(JsonStringify(parsed.records[k]))], <<NL>>))]

\* convertCsvToJsonl(csvFilePath, jsonlFilePath): the JSONL file afterwards and
\* whether the call threw (readFileSync on a missing file, or a parse error)
convertCsvToJsonl(csv, jsonl) ==
    IF ~csv.exists THEN [threw |-> TRUE, jsonl |-> jsonl]
    ELSE LET parsed == csvParseSync(csv.data)
         IN  IF ~parsed.ok THEN [threw |-> TRUE, jsonl |-> jsonl]
             ELSE [threw |-> FALSE,
                   jsonl |-> FileOf(ArrayJoin(
                       [k \in 1..Len(parsed.records) |->
                          Str(JsonStringify(parsed.records[k]))], <<NL>>))]

---------------------------------------------------------------------------
(* The command line: startup, the yargs command table and the handlers *)

\* what console.log receives: a mined pair carries its text, the other lines
\* are kept as a tag with the id they print
Line(what, msg, text, ref) == [what |-> what, msg |-> msg, text |-> text, ref |-> ref]

\* const debug = process.env.DEBUG.includes("true") ? console.log : () => {}
debug(dbg, message) ==
    IF dbg = "true" THEN << Line("debug", message, << >>, 0) >> ELSE << >>

\* a remote request: its operation and what it refers to
Call(run, op, ref, data, model, prompt) ==
    [run |-> run, op |-> op, ref |-> ref, data |-> data, model |-> model, prompt |-> prompt]

\* the command yargs runs for the positional arguments: a known command name
\* selects its handler ("fail": a demanded positional is missing), anything
\* else falls to the default command ["upload", "$0"]
YargsCommand(args) ==
    IF args = << >> THEN "upload"
    ELSE IF Head(args) = "list" THEN "list"
    ELSE IF Head(args) = "generate" THEN (IF Len(args) >= 3 THEN "generate" ELSE "fail")
    ELSE IF Head(args) = "upload" THEN "upload"
    ELSE IF Head(args) = "parse" THEN (IF Len(args) >= 2 THEN "parse" ELSE "fail")
    ELSE "upload"

Argvs == { << >>, <<"upload">>, <<"list">>, <<"generate", "model-1", "hello">>,
           <<"generate">>, <<"parse", "input">>, <<"model-1", "hello">> }

DebugValues == {"unset", "true", "false"}

\* node index.js <args>, with DEBUG as given: the module is loaded (line 22
\* reads process.env.DEBUG.includes) and yargs selects the command
Start(args, dbg) ==
    /\ pc = "shell"
    /\ runs < MaxRuns
    /\ runs' = runs + 1
    /\ argv' = args
    /\ envDebug' = dbg
    /\ visited' = << >>
    /\ emitted' = << >>
    /\ trainingFileId' = 0
    /\ fineTuneId' = 0
    /\ IF dbg = "unset"
         THEN \* TypeError: cannot read properties of undefined (reading 'includes')
              /\ pc' = "shell"
              /\ exitCode' = 1
              /\ stdout' = << >>
         ELSE IF YargsCommand(args) = "fail"
           THEN /\ pc' = "shell"
                /\ exitCode' = 1
                /\ stdout' = debug(dbg, "Fine Tuning GPT-3")
         ELSE /\ pc' = YargsCommand(args)
              /\ exitCode' = 0
              /\ stdout' = debug(dbg, "Fine Tuning GPT-3")
    /\ UNCHANGED << csvFile, jsonlFile, inputPath, remoteFiles, fineTunes, calls >>

\* the upload handler: convert the dataset, then uploadDatasetAndFineTuneModel
\* runs up to its first await (the createFile request)
UploadHandler ==
    /\ pc = "upload"
    /\ LET conv == convertCsvToJsonl(csvFile, jsonlFile)
       IN  /\ jsonlFile' = conv.jsonl
           /\ stdout' = stdout \o debug(envDebug, "Uploading dataset and fine tuning model")
           /\ IF conv.threw
                THEN /\ pc' = "shell"
                     /\ exitCode' = 1
                     /\ calls' = calls
                ELSE /\ pc' = "createFile"
                     /\ exitCode' = exitCode
                     /\ calls' = Append(calls, Call(runs, "createFile", 0, conv.jsonl.data, "", ""))
    /\ UNCHANGED << argv, envDebug, runs, csvFile, inputPath, visited, emitted,
                    remoteFiles, fineTunes, trainingFileId, fineTuneId >>

\* an awaited remote call rejects: nothing catches it, the process ends
Rejected ==
    /\ pc' = "shell"
    /\ exitCode' = 1

\* CreateFileReturns without the await: the fine-tune request is issued whether
\* or not the upload succeeded, with whatever id is at hand
CreateFileReturnsUnchecked(ok) ==
    /\ pc = "createFile"
    /\ remoteFiles' = IF ok THEN Append(remoteFiles, calls[Len(calls)].data) ELSE remoteFiles
    /\ trainingFileId' = Len(remoteFiles) + 1
    /\ calls' = Append(calls, Call(runs, "createFineTune", Len(remoteFiles) + 1,
                                    << >>, "davinci", ""))
    /\ pc' = "createFineTune"
    /\ UNCHANGED << argv, envDebug, runs, exitCode, csvFile, jsonlFile, inputPath, visited,
                    emitted, stdout, fineTunes, fineTuneId >>

\* openai.createFile answers; on success the fine-tune request is issued
CreateFileReturns(ok) ==
    /\ pc = "createFile"
    /\ IF ok
         THEN /\ remoteFiles' = Append(remoteFiles, calls[Len(calls)].data)
              /\ trainingFileId' = Len(remoteFiles) + 1
              /\ calls' = Append(calls, Call(runs, "createFineTune", Len(remoteFiles) + 1,
                                              << >>, "davinci", ""))
              /\ pc' = "createFineTune"
              /\ exitCode' = exitCode
         ELSE /\ Rejected
              /\ UNCHANGED << remoteFiles, trainingFileId, calls >>
    /\ UNCHANGED << argv, envDebug, runs, csvFile, jsonlFile, inputPath, visited,
                    emitted, stdout, fineTunes, fineTuneId >>

\* CreateFineTuneReturns without the retrieveFineTune call: the id is returned
\* and printed as soon as the job is created
CreateFineTuneReturnsAtOnce(ok) ==
    /\ pc = "createFineTune"
    /\ IF ok
         THEN /\ fineTunes' = Append(fineTunes, [model |-> calls[Len(calls)].model,
                                                  training_file |-> calls[Len(calls)].ref,
                                                  status |-> "pending"])
              /\ fineTuneId' = Len(fineTunes) + 1
              /\ stdout' = Append(stdout, Line("Fine tune id", "", << >>, Len(fineTunes) + 1))
              /\ pc' = "shell"
              /\ exitCode' = 0
         ELSE /\ Rejected
              /\ UNCHANGED << fineTunes, fineTuneId, stdout >>
    /\ UNCHANGED << argv, envDebug, runs, csvFile, jsonlFile, inputPath, visited,
                    emitted, calls, remoteFiles, trainingFileId >>

\* openai.createFineTune answers; on success the job exists remotely and
\* retrieveFineTune is requested for it
CreateFineTuneReturns(ok) ==
    /\ pc = "createFineTune"
    /\ IF ok
         THEN /\ fineTunes' = Append(fineTunes, [model |-> calls[Len(calls)].model,
                                                  training_file |-> calls[Len(calls)].ref,
                                                  status |-> "pending"])
              /\ fineTuneId' = Len(fineTunes) + 1
              /\ calls' = Append(calls, Call(runs, "retrieveFineTune", Len(fineTunes) + 1,
                                              << >>, "", ""))
              /\ pc' = "retrieveFineTune"
              /\ exitCode' = exitCode
         ELSE /\ Rejected
              /\ UNCHANGED << fineTunes, fineTuneId, calls >>
    /\ UNCHANGED << argv, envDebug, runs, csvFile, jsonlFile, inputPath, visited,
                    emitted, stdout, remoteFiles, trainingFileId >>

\* openai.retrieveFineTune answers; on success the job data is printed, the id
\* is returned and the handler's then-callback prints "Fine tune id: ..."
RetrieveFineTuneReturns(ok) ==
    /\ pc = "retrieveFineTune"
    /\ IF ok
         THEN /\ stdout' = stdout \o << Line("fineTune", fineTunes[fineTuneId].status, << >>,
                                             fineTuneId),
                                        Line("Fine tune id", "", << >>, fineTuneId) >>
              /\ pc' = "shell"
              /\ exitCode' = 0
         ELSE /\ Rejected
              /\ stdout' = stdout
    /\ UNCHANGED << argv, envDebug, runs, csvFile, jsonlFile, inputPath, visited,
                    emitted, remoteFiles, fineTunes, calls, trainingFileId, fineTuneId >>

\* the list handler: listFineTunes runs up to its await
ListHandler ==
    /\ pc = "list"
    /\ stdout' = stdout \o debug(envDebug, "Listing fine tunes")
    /\ calls' = Append(calls, Call(runs, "listFineTunes", 0, << >>, "", ""))
    /\ pc' = "listFineTunes"
    /\ UNCHANGED << argv, envDebug, runs, exitCode, csvFile, jsonlFile, inputPath,
                    visited, emitted, remoteFiles, fineTunes, trainingFileId, fineTuneId >>

\* openai.listFineTunes answers: one line per job, in the order returned
ListFineTunesReturns(ok) ==
    /\ pc = "listFineTunes"
    /\ IF ok
         THEN /\ stdout' = stdout \o [j \in 1..Len(fineTunes) |->
                                        Line("listing", fineTunes[j].status, << >>, j)]
              /\ pc' = "shell"
              /\ exitCode' = 0
         ELSE /\ Rejected
              /\ stdout' = stdout
    /\ UNCHANGED << argv, envDebug, runs, csvFile, jsonlFile, inputPath, visited,
                    emitted, remoteFiles, fineTunes, calls, trainingFileId, fineTuneId >>

\* the generate handler: generateCode(argv.model, argv.prompt)
GenerateHandler ==
    /\ pc = "generate"
    /\ stdout' = stdout \o debug(envDebug, "Generating code")
    /\ calls' = Append(calls, Call(runs, "createCompletion", 0, << >>, argv[2], argv[3]))
    /\ pc' = "createCompletion"
    /\ UNCHANGED << argv, envDebug, runs, exitCode, csvFile, jsonlFile, inputPath,
                    visited, emitted, remoteFiles, fineTunes, trainingFileId, fineTuneId >>

\* openai.createCompletion answers; choices[0].text is printed
CreateCompletionReturns(ok) ==
    /\ pc = "createCompletion"
    /\ IF ok
         THEN /\ stdout' = stdout \o << Line("choice", calls[Len(calls)].prompt, << >>, 1) >>
              /\ pc' = "shell"
              /\ exitCode' = 0
         ELSE /\ Rejected
              /\ stdout' = stdout
    /\ UNCHANGED << argv, envDebug, runs, csvFile, jsonlFile, inputPath, visited,
                    emitted, remoteFiles, fineTunes, calls, trainingFileId, fineTuneId >>

PairLines(pairs) ==
    [k \in 1..Len(pairs) |-> Line("pair", "", PairLine(pairs[k].prompt, pairs[k].completion), 0)]

NoMining == [visited |-> << >>, emitted |-> << >>, out |-> << >>]

RECURSIVE MineEntries(_, _, _)
\* the loop over fs.readdirSync(path): entries with extension .js or .ts are
\* mined, in listing order; the others are skipped
MineEntries(dbg, entries, k) ==
    IF k > Len(entries) THEN NoMining
    ELSE LET rest == MineEntries(dbg, entries, k + 1)
             check == debug(dbg, "Checking whether to parse file")
         IN  IF entries[k].ext \in {".js", ".ts"}
               THEN LET walk == parseSourcecode(entries[k].tree, k)
                    IN  [visited |-> walk.visited \o rest.visited,
                         emitted |-> walk.emitted \o rest.emitted,
                         out |-> check \o debug(dbg, "Parsing source code file")
                                   \o debug(dbg, "Parsing ...")
                                   \o PairLines(walk.emitted) \o rest.out]
             ELSE [rest EXCEPT !.out = check \o rest.out]

\* the parse handler: a directory is listed and its .js/.ts entries mined, any
\* other path is mined as one file; the handler is synchronous
ParseHandler ==
    /\ pc = "parse"
    /\ IF ~inputPath.exists
         THEN \* fs.lstatSync throws
              /\ pc' = "shell"
              /\ exitCode' = 1
              /\ UNCHANGED << visited, emitted, stdout >>
         ELSE LET mined ==
                    IF inputPath.isDirectory
                      THEN LET m == MineEntries(envDebug, inputPath.entries, 1)
                           IN  [m EXCEPT !.out = debug(envDebug, "Parsing source code in directory")
                                                   \o m.out]
                    ELSE LET walk == parseSourcecode(inputPath.entries[1].tree, 1)
                         IN  [visited |-> walk.visited, emitted |-> walk.emitted,
                              out |-> debug(envDebug, "Parsing source code file")
                                        \o debug(envDebug, "Parsing ...")
                                        \o PairLines(walk.emitted)]
              IN  /\ visited' = mined.visited
                  /\ emitted' = mined.emitted
                  /\ stdout' = stdout \o mined.out
                  /\ pc' = "shell"
                  /\ exitCode' = 0
    /\ UNCHANGED << argv, envDebug, runs, csvFile, jsonlFile, inputPath, remoteFiles,
                    fineTunes, calls, trainingFileId, fineTuneId >>

\* the remote service finishes training a job (the tool never does this)
ServiceTrains(j) ==
    /\ j \in 1..Len(fineTunes)
    /\ fineTunes[j].status = "pending"
    /\ fineTunes' = [fineTunes EXCEPT ![j].status = "succeeded"]
    /\ UNCHANGED << pc, argv, envDebug, runs, exitCode, csvFile, jsonlFile, inputPath,
                    visited, emitted, stdout, remoteFiles, calls, trainingFileId,
                    fineTuneId >>

---------------------------------------------------------------------------
(* Inputs *)

S_header == S_prompt \o <<COMMA>> \o S_completion \o <<NL>>

\* a dataset in the README's shape, one with a quote left open, none at all
SampleCsv == S_header \o <<"x", COMMA, QUOTE, "y", COMMA, NL, "z", QUOTE, NL, "u", COMMA, "v">>
BrokenCsv == S_header \o <<"x", COMMA, QUOTE, "y", NL>>
CliCsvFiles == { NoFile, FileOf(SampleCsv), FileOf(BrokenCsv) }

\* what an earlier run may have left in dataset.jsonl
OldJsonl == FileOf(<<"{", "}">>)

\* (a, b) => "s"
SampleTree ==
    [parent |-> <<0, 1, 2>>,
     label |-> << SourceFileLabel,
                  [kind |-> "ArrowFunction", parameters |-> <<IdentA, IdentB>>],
                  StringLiteralLabel >>]

\* () => { }
SampleTree0 ==
    [parent |-> <<0, 1, 2>>,
     label |-> << SourceFileLabel,
                  [kind |-> "ArrowFunction", parameters |-> << >>],
                  BlockLabel >>]

Entry(ext, tree) == [ext |-> ext, tree |-> tree]
SourcePath(tree) == [exists |-> TRUE, isDirectory |-> FALSE, entries |-> << Entry(".ts", tree) >>]
DirectoryPath(entries) == [exists |-> TRUE, isDirectory |-> TRUE, entries |-> entries]
MissingPath == [exists |-> FALSE, isDirectory |-> FALSE, entries |-> << >>]

CliPaths ==
    { MissingPath,
      SourcePath(SampleTree),
      DirectoryPath(<< Entry(".js", SampleTree0), Entry(".md", SampleTree),
                       Entry(".ts", SampleTree) >>) }

\* CSV files for the conversion: tables of plain cells written out as text,
\* and texts over the characters the CSV reader treats specially
HeaderNames == { S_prompt, S_completion, <<"1">> }
CellValues == { <<"x">>, <<"y">> }
CsvAlphabet == { QUOTE, COMMA, NL, "x" }

SeqsUpTo(S, lo, hi) == UNION { [1..k -> S] : k \in lo..hi }

\* header rows of at most `cols` columns: column names, no name twice
Headers(cols) ==
    { h \in SeqsUpTo(HeaderNames, 1, cols) :
        \A i, j \in 1..Len(h) : i # j => h[i] # h[j] }

\* a header row and at most `rows` data rows of at most `cols` cells
Tables(cols, rows) ==
    { [header |-> h, rows |-> rs] :
        h \in Headers(cols),
        rs \in SeqsUpTo(SeqsUpTo(CellValues, 1, cols), 0, rows) }

CsvText(table) ==
    LET line(cells) == ArrayJoin([k \in 1..Len(cells) |-> Str(cells[k])], <<COMMA>>) \o <<NL>>
    IN  line(table.header) \o Cat([k \in 1..Len(table.rows) |-> line(table.rows[k])])

CsvInputs(cols, rows, body) ==
    { FileOf(CsvText(t)) : t \in Tables(cols, rows) }
      \cup { FileOf(S_header \o b) : b \in SeqsUpTo(CsvAlphabet, 0, body) }
      \cup CliCsvFiles

---------------------------------------------------------------------------
(* Specifications *)

InitProcess ==
    /\ exitCode = 0
    /\ visited = << >>
    /\ emitted = << >>
    /\ stdout = << >>
    /\ remoteFiles = << >>
    /\ fineTunes = << >>
    /\ calls = << >>
    /\ trainingFileId = 0
    /\ fineTuneId = 0

\* the command line tool, invoked up to MaxRuns times against one service
Init ==
    /\ InitProcess
    /\ pc = "shell"
    /\ runs = 0
    /\ argv = << >>
    /\ envDebug = "unset"
    /\ csvFile \in CliCsvFiles
    /\ jsonlFile \in { NoFile, OldJsonl }
    /\ inputPath \in CliPaths

Next ==
    \/ \E args \in Argvs, dbg \in DebugValues : Start(args, dbg)
    \/ UploadHandler
    \/ \E ok \in BOOLEAN : CreateFileReturns(ok)
    \/ \E ok \in BOOLEAN : CreateFineTuneReturns(ok)
    \/ \E ok \in BOOLEAN : RetrieveFineTuneReturns(ok)
    \/ ListHandler
    \/ \E ok \in BOOLEAN : ListFineTunesReturns(ok)
    \/ GenerateHandler
    \/ \E ok \in BOOLEAN : CreateCompletionReturns(ok)
    \/ ParseHandler
    \/ \E j \in 1..Len(fineTunes) : ServiceTrains(j)

Spec == Init /\ [][Next]_vars

\* the miner applied to every source file within the bounds
InitMine ==
    /\ InitProcess
    /\ pc = "parse"
    /\ runs = 1
    /\ argv = <<"parse", "input">>
    /\ envDebug \in DebugValues \ {"unset"}
    /\ csvFile = NoFile
    /\ jsonlFile = NoFile
    /\ inputPath \in { SourcePath(t) : t \in TreesUpTo(MaxNodes) }

NextMine == ParseHandler

SpecMine == InitMine /\ [][NextMine]_vars

\* the dataset conversion applied to every CSV file within the bounds
InitCsv ==
    /\ InitProcess
    /\ pc = "upload"
    /\ runs = 1
    /\ argv = <<"upload">>
    /\ envDebug \in DebugValues \ {"unset"}
    /\ csvFile \in CsvInputs(MaxCols, MaxRows, MaxBody)
    /\ jsonlFile \in { NoFile, OldJsonl }
    /\ inputPath = MissingPath

NextCsv == UploadHandler

SpecCsv == InitCsv /\ [][NextCsv]_vars

---------------------------------------------------------------------------
(* Properties of the miner (checked under SpecMine) *)

\* the invocation has run its handler to the end without an error
Finished == runs > 0 /\ pc = "shell" /\ exitCode = 0

TreeOf(f) == inputPath.entries[f].tree

\* the (prompt, completion) pairs logged for node i of file f, in order
PairsOf(f, i) ==
    LET mine == SelectSeq(emitted, LAMBDA e : e.file = f /\ e.node = i)
    IN  [k \in 1..Len(mine) |-> [prompt |-> mine[k].prompt, completion |-> mine[k].completion]]

\* every logged pair is one console.log line, in the same order
PairsArePrinted ==
    LET printed == SelectSeq(stdout, LAMBDA l : l.what = "pair")
    IN  /\ Len(printed) = Len(emitted)
        /\ \A k \in 1..Len(emitted) :
              printed[k].text = <<QUOTE>> \o emitted[k].prompt \o <<QUOTE, COMMA, QUOTE>>
                                  \o emitted[k].completion \o <<QUOTE, NL>>

\* C1: every visited arrow function with zero parameters logs exactly two
\* pairs, with prompts "function" and "function with no parameters" in that
\* order, both with the printed text of the node as completion
C1_ZeroParameters ==
    /\ PairsArePrinted
    /\ \A k \in 1..Len(visited) :
          LET f == visited[k].file
              i == visited[k].node
              t == TreeOf(f)
          IN  (t.label[i].kind = "ArrowFunction" /\ Len(t.label[i].parameters) = 0)
                => PairsOf(f, i) =
                     << [prompt |-> <<"f", "u", "n", "c", "t", "i", "o", "n">>,
                         completion |-> printNode(t, i)],
                        [prompt |-> <<"f", "u", "n", "c", "t", "i", "o", "n", " ", "w", "i",
                                      "t", "h", " ", "n", "o", " ", "p", "a", "r", "a", "m",
                                      "e", "t", "e", "r", "s">>,
                         completion |-> printNode(t, i)] >>

\* a mined file holds an arrow function without parameters
C1_Witness ==
    /\ Finished
    /\ \E k \in 1..Len(visited) :
          /\ TreeOf(visited[k].file).label[visited[k].node].kind = "ArrowFunction"
          /\ TreeOf(visited[k].file).label[visited[k].node].parameters = << >>
          /\ Len(PairsOf(visited[k].file, visited[k].node)) = 2

\* the name a parameter contributes to the prompt: its identifier, nothing for
\* a destructured parameter (which has no name)
NameOf(param) == IF param.isIdentifier THEN param.text ELSE << >>

RECURSIVE NamesJoined(_)
\* the names in declaration order, joined by ", "
NamesJoined(ps) ==
    IF Len(ps) = 1 THEN NameOf(ps[1])
    ELSE NamesJoined(SubSeq(ps, 1, Len(ps) - 1)) \o <<",", " ">> \o NameOf(ps[Len(ps)])

RECURSIVE IsAncestor(_, _, _)
\* a is a proper ancestor of d in tree t
IsAncestor(t, a, d) ==
    /\ d # 1
    /\ (t.parent[d] = a \/ IsAncestor(t, a, t.parent[d]))

\* the position of node i of file 1 among the parseNode calls (0: never called)
VisitIndex(i) ==
    IF \E k \in 1..Len(visited) : visited[k].node = i
      THEN CHOOSE k \in 1..Len(visited) : visited[k].node = i
    ELSE 0

EmitIndexes(i) == { k \in 1..Len(emitted) : emitted[k].node = i }

C10_PairLineReadsBack ==
    \A k \in 1..Len(emitted) :
       LET printed == SelectSeq(stdout, LAMBDA l : l.what = "pair")
           back == csvParseSync(S_header \o printed[k].text \o <<NL>>)
       IN  /\ back.ok
           /\ back.records = << [prompt |-> Str(emitted[k].prompt),
                                 completion |-> Str(emitted[k].completion)] >>

---------------------------------------------------------------------------
(* Properties of the dataset conversion (checked under SpecCsv) *)

\* the lines of a text: the pieces between newline characters
LinesOf(text) ==
    LET nls == { j \in 1..Len(text) : text[j] = NL }
        nth(k) == CHOOSE j \in nls : Cardinality({ i \in nls : i < j }) = k - 1
        cut(k) == IF k = 0 THEN 0
                  ELSE IF k > Cardinality(nls) THEN Len(text) + 1
                  ELSE nth(k)
    IN  IF text = << >> THEN << >>
        ELSE [ k \in 1..(Cardinality(nls) + 1) |->
                 SubSeq(text, cut(k - 1) + 1, cut(k) - 1) ]

\* the values a row holds under a column named completion
CompletionValues(header, row) ==
    LET cs == { c \in 1..Len(header) : header[c] = S_completion /\ c <= Len(row) }
    IN  IF cs = {} THEN { Undefined } ELSE { Str(row[c]) : c \in cs }

\* C4: the JSONL file holds one object per data row of the CSV, in row order;
\* its prompt is the value of the row's first column, whatever the header calls
\* it, and its completion the value of the column named completion
C4_OneObjectPerRow ==
    (pc = "createFile") =>
       LET parsed == CsvRows(csvFile.data).records
           header == Head(parsed)
           rows == Tail(parsed)
           lines == LinesOf(jsonlFile.data)
       IN  /\ Len(lines) = Len(rows)
           /\ \A k \in 1..Len(rows) :
                 \E c \in CompletionValues(header, rows[k]) :
                    lines[k] = JsonStringify([prompt |-> Str(rows[k][1]), completion |-> c])

---------------------------------------------------------------------------
(* Properties of the command line (checked under Spec) *)

CallsOfRun(r) == SelectSeq(calls, LAMBDA c : c.run = r)
OpsOfRun(r) == [k \in 1..Len(CallsOfRun(r)) |-> CallsOfRun(r)[k].op]
IdPrinted(id) == \E k \in 1..Len(stdout) : stdout[k].what = "Fine tune id" /\ stdout[k].ref = id

\* C5 as claimed: once the fine-tune job of this invocation is created, its id
\* is returned and printed whatever any further remote call does
C5_ReturnsRightAfterCreation ==
    (pc = "shell" /\ fineTuneId # 0) => IdPrinted(fineTuneId)

\* C5 amended: the id is printed only after one more remote call,
\* retrieveFineTune for the new job, has been issued and has answered (its data
\* is printed first); while that call is pending nothing is returned, and if it
\* fails the id is never printed; the job itself need not have finished
C5_ReturnsAfterRetrieve ==
    /\ \A k \in 1..Len(stdout) :
          stdout[k].what = "Fine tune id"
            => /\ k > 1
               /\ stdout[k - 1].what = "fineTune"
               /\ stdout[k - 1].ref = stdout[k].ref
               /\ stdout[k].ref = fineTuneId
               /\ fineTuneId \in 1..Len(fineTunes)
               /\ OpsOfRun(runs) = <<"createFile", "createFineTune", "retrieveFineTune">>
               /\ calls[Len(calls)].ref = fineTuneId
               /\ pc = "shell"
    /\ (pc = "retrieveFineTune") => (fineTuneId \in 1..Len(fineTunes) /\ ~IdPrinted(fineTuneId))
    /\ (pc = "shell" /\ fineTuneId # 0 /\ exitCode = 0) => IdPrinted(fineTuneId)
    /\ (pc = "shell" /\ fineTuneId # 0 /\ exitCode = 1) => ~IdPrinted(fineTuneId)

\* the id is printed while the job is still pending on the service
C5_Witness ==
    /\ pc = "shell"
    /\ fineTuneId # 0
    /\ IdPrinted(fineTuneId)
    /\ fineTunes[fineTuneId].status = "pending"

\* C6: an invocation with two positional arguments and no command name runs
\* completion generation for them and nothing else: no dataset conversion, no
\* file upload, no fine-tune creation
C6_TwoPositionalsGenerate ==
    (runs > 0 /\ Len(argv) = 2 /\ argv[1] \notin {"list", "generate", "upload", "parse"})
      => /\ pc \in {"generate", "createCompletion", "shell"}
         /\ \A k \in 1..Len(CallsOfRun(runs)) :
               CallsOfRun(runs)[k].op \notin {"createFile", "createFineTune"}

\* C7: with DEBUG unset an invocation starts up and runs the command it names
\* (upload, list, generate or parse), printing no debug line
C7_DebugIsOptional ==
    [][ (pc = "shell" /\ runs' = runs + 1 /\ envDebug' = "unset"
           /\ YargsCommand(argv') # "fail")
          => (pc' = YargsCommand(argv') /\ stdout' = << >>) ]_vars

IsPrefix(s, t) == Len(s) <= Len(t) /\ s = SubSeq(t, 1, Len(s))

\* C8: in every invocation the remote calls of the upload are issued one after
\* the other, each at most once; the fine-tune request is issued only after
\* the upload has answered with a file id and names exactly that file, which
\* holds the JSONL data sent; every job on the service was created by its own
\* invocation, so k successful uploads leave k jobs
C8_SequentialUpload ==
    /\ \A r \in 1..runs :
          /\ \/ IsPrefix(OpsOfRun(r), <<"createFile", "createFineTune", "retrieveFineTune">>)
             \/ OpsOfRun(r) \in { <<"listFineTunes">>, <<"createCompletion">> }
          /\ Len(OpsOfRun(r)) >= 2
               => /\ CallsOfRun(r)[2].ref \in 1..Len(remoteFiles)
                  /\ remoteFiles[CallsOfRun(r)[2].ref] = CallsOfRun(r)[1].data
                  /\ \A q \in 1..runs :
                        (q # r /\ Len(OpsOfRun(q)) >= 2)
                          => CallsOfRun(q)[2].ref # CallsOfRun(r)[2].ref
          /\ Len(OpsOfRun(r)) = 3
               => /\ CallsOfRun(r)[3].ref \in 1..Len(fineTunes)
                  /\ fineTunes[CallsOfRun(r)[3].ref].training_file = CallsOfRun(r)[2].ref
                  /\ fineTunes[CallsOfRun(r)[3].ref].model = "davinci"
    /\ Len(remoteFiles) = Cardinality({ r \in 1..runs : Len(OpsOfRun(r)) >= 2 })
    /\ Len(fineTunes) = Cardinality({ r \in 1..runs : Len(OpsOfRun(r)) = 3 })
    /\ (Finished /\ YargsCommand(argv) = "upload")
         => /\ Len(OpsOfRun(runs)) = 3
            /\ fineTuneId = Len(fineTunes)
            /\ trainingFileId = Len(remoteFiles)
            /\ remoteFiles[trainingFileId] = jsonlFile.data

\* two uploads have succeeded and two jobs exist, each on its own file
C8_Witness ==
    /\ Finished
    /\ YargsCommand(argv) = "upload"
    /\ runs >= 2
    /\ Len(fineTunes) = 2
    /\ fineTunes[1].training_file = 1
    /\ fineTunes[2].training_file = 2

\* reading or parsing the dataset fails
ConversionFails(csv) == ~csv.exists \/ ~CsvRows(csv.data).ok

\* C9: when reading or parsing the CSV fails, the upload handler leaves the
\* JSONL file exactly as it was and issues no remote request
C9_AllOrNothing ==
    [][ (pc = "upload" /\ ConversionFails(csvFile))
          => (jsonlFile' = jsonlFile /\ calls' = calls /\ remoteFiles' = remoteFiles
                /\ fineTunes' = fineTunes /\ pc' = "shell" /\ exitCode' = 1) ]_vars

\* an upload has failed on an unreadable dataset and the old JSONL file is
\* still there
C9_Witness ==
    /\ runs > 0 /\ pc = "shell" /\ exitCode = 1
    /\ envDebug # "unset"
    /\ YargsCommand(argv) = "upload"
    /\ csvFile.exists
    /\ ~CsvRows(csvFile.data).ok
    /\ jsonlFile = OldJsonl
    /\ CallsOfRun(runs) = << >>

=============================================================================
